---- MODULE Spec2Model ----
(***************************************************************************)
(* Treasury payment workflow (flask_server.py): the in-memory proposal     *)
(* store, the on-disk artifacts, and the four request handlers.  A handler *)
(* that calls a pipeline (the crew) is two steps, the part before the call *)
(* and the part after it returns or raises, because the development server *)
(* handles requests on threads and the call blocks for a long time.        *)
(***************************************************************************)
EXTENDS Integers, Sequences, FiniteSets, Bags, TLC

VARIABLES
    proposals,   \* flask_server.proposals: identifier -> stored value
    disk,        \* the files of the output directory
    issued,      \* how many identifiers id_provider has returned
    generating,  \* bag of contexts of submit_request calls inside the Proposal Pipeline
    executing,   \* bag of frames (data, context) of submit_payment_approval calls inside the Execution Pipeline
    last,        \* the response of the request that completed last
    payment      \* a call of the payment tool: its arguments, and its answer once it ran

vars == <<proposals, disk, issued, generating, executing, last, payment>>

(* ---------------------------------------------------------------- bounds *)
MaxProposals == 1   \* identifiers id_provider may issue
MaxInFlight == 2    \* requests that may be inside a pipeline call at once
MaxBatch == 2       \* identifiers issued in the run that submits proposal after proposal

(* ------------------------------------------------------- JSON documents *)
\* A Python value as json.loads / the pipelines produce it. A dict is a
\* function from its keys; leaves are strings, numbers, booleans, sequences.
EmptyDict == [k \in {} |-> ""]
Map(f) == [kind |-> "map", f |-> f, items |-> <<>>]
List(s) == [kind |-> "list", f |-> EmptyDict, items |-> s]
Scalar(x) == [kind |-> "scalar", f |-> EmptyDict, items |-> <<x>>]
Null == Scalar("null")
\* The body of the framework's own 500 page, sent when an exception leaves a handler.
HtmlErrorPage == [kind |-> "html", f |-> EmptyDict, items |-> <<>>]

\* Python's `key in value`: dict keys, list elements, TypeError on None / numbers.
InRaises(v) == v.kind = "scalar"
In(key, v) == IF v.kind = "map" THEN key \in DOMAIN v.f
              ELSE IF v.kind = "list" THEN \E i \in 1..Len(v.items) : v.items[i] = key
              ELSE FALSE
IsDict(v) == v.kind = "map"
IsList(v) == v.kind = "list"
\* Python's truth value: empty containers, None, 0 and False are false
Falsy(v) == \/ v.kind = "map" /\ DOMAIN v.f = {}
            \/ v.kind = "list" /\ v.items = <<>>
            \/ v = Null
\* dict.get(key, default)
Get(v, key, default) == IF key \in DOMAIN v.f THEN v.f[key] ELSE default
\* Faulty variant: the dict replaced by one holding the new item alone.
SetItemAlone(v, key, value) == Map(key :> value)
\* d[key] = value on a dict
SetItem(v, key, value) == Map((key :> value) @@ v.f)
\* the dict restricted to some of its keys (how the inputs below are enumerated)
Pick(full, keys) == [k \in keys |-> full[k]]

\* A string handed to json.loads: either the encoding of a value, or not JSON.
Dumps(v) == [parses |-> TRUE, val |-> v, chars |-> "json"]
NotJson == [parses |-> FALSE, val |-> Null, chars |-> "not json"]

(* ------------------------------------------------------------ responses *)
NoId == -1
Ghost == 0          \* an identifier id_provider never returns
Ids == 1..MaxProposals
Response(op, id, code, body) == [op |-> op, id |-> id, code |-> code, body |-> body]
\* _error(message, code)
error(message, code) == [code |-> code, body |-> Map([error |-> message, success |-> FALSE])]
\* an exception no handler catches: the framework answers 500 with its own page
Unhandled == [code |-> 500, body |-> HtmlErrorPage]
Reply(op, id, r) == Response(op, id, r.code, r.body)

(* ------------------------------------------------------ _validate_config *)
Valid == [raises |-> "none", msg |-> ""]
ValueError(msg) == [raises |-> "ValueError", msg |-> msg]
Crash(exc) == [raises |-> exc, msg |-> exc]

validate_config_limits(tx) ==
    IF ~IsDict(tx) THEN ValueError("risk_config.transaction_limits is required")
    ELSE IF ~In("single", tx) THEN ValueError("risk_config.transaction_limits.single is required")
    ELSE IF ~In("daily", tx) THEN ValueError("risk_config.transaction_limits.daily is required")
    ELSE Valid

validate_config_risk(risk) ==
    IF ~IsDict(risk) THEN ValueError("risk_config must be an object")
    ELSE IF ~In("min_balance_usd", risk) THEN ValueError("risk_config.min_balance_usd is required")
    ELSE validate_config_limits(Get(risk, "transaction_limits", Null))

validate_config(cfg) ==
    IF InRaises(cfg) THEN Crash("TypeError")
    ELSE IF ~In("user_id", cfg) THEN ValueError("Missing required field: user_id")
    ELSE IF ~In("risk_config", cfg) THEN ValueError("Missing required field: risk_config")
    ELSE IF ~IsDict(cfg) THEN Crash("AttributeError")
    ELSE validate_config_risk(Get(cfg, "risk_config", Null))

(* ----------------------------------------------------------------- disk *)
File(kind, pid) == [kind |-> kind, id |-> pid]
temp_excel(pid) == File("temp_excel", pid)
proposal_json(pid) == File("proposal", pid)
execution_result_json(pid) == File("execution_result", pid)
ArtifactsOf(pid) == {temp_excel(pid), proposal_json(pid), execution_result_json(pid)}

\* Faulty variant: the identifier of the call before, once there is one.
id_provider_repeats == IF issued = 0 THEN issued + 1 ELSE issued
\* id_provider: uuid4, a fresh identifier on every call
id_provider == issued + 1

InFlight == BagCardinality(generating) + BagCardinality(executing)

(* -------------------------------------------------------- submit_request *)
\* The request up to the pipeline call. req: the multipart request;
\* fault: what the file system does to this request; cap, ids: how many
\* requests the run lets into a pipeline at once, and how many identifiers
\* it lets id_provider issue.
\* Faulty variant: the check for an empty spreadsheet left out.
submit_request_reject_allows_empty(req) ==
    IF ~req.has_excel THEN error("Missing 'excel' file part", 400)
    ELSE IF ~req.has_json THEN error("Missing 'json' config part", 400)
    ELSE IF ~req.json.parses THEN error("Invalid JSON in 'json' part", 400)
    ELSE IF validate_config(req.json.val).raises = "ValueError"
        THEN error(validate_config(req.json.val).msg, 400)
    ELSE IF validate_config(req.json.val).raises # "none" THEN Unhandled
    ELSE IF req.excel = "unreadable" THEN error("Failed to read 'excel' file", 400)
    ELSE [code |-> 0, body |-> Null]

submit_request_reject(req) ==
    IF ~req.has_excel THEN error("Missing 'excel' file part", 400)
    ELSE IF ~req.has_json THEN error("Missing 'json' config part", 400)
    ELSE IF ~req.json.parses THEN error("Invalid JSON in 'json' part", 400)
    ELSE IF validate_config(req.json.val).raises = "ValueError"
        THEN error(validate_config(req.json.val).msg, 400)
    ELSE IF validate_config(req.json.val).raises # "none" THEN Unhandled
    ELSE IF req.excel = "unreadable" THEN error("Failed to read 'excel' file", 400)
    ELSE IF req.excel = "empty" THEN error("Uploaded 'excel' file is empty", 400)
    ELSE [code |-> 0, body |-> Null]

\* Faulty variant: the pipeline pointed at the uploaded name, not the saved file.
proposal_context_upload_name(pid, req) ==
    [proposal_id |-> pid, config |-> req.json.val,
     excel_file_path |-> File("upload", NoId), excel_filename |-> "uploaded.xlsx"]

proposal_context(pid, req) ==
    [proposal_id |-> pid, config |-> req.json.val,
     excel_file_path |-> temp_excel(pid), excel_filename |-> "uploaded.xlsx"]

submit_request(req, fault, cap, ids) ==
    LET r == submit_request_reject(req)
        pid == id_provider
    IN  IF r.code # 0
        THEN /\ last' = Reply("submit_request", NoId, r)
             /\ UNCHANGED <<proposals, disk, issued, generating, executing>>
        ELSE /\ issued < ids
             /\ InFlight < cap
             /\ issued' = pid
             /\ UNCHANGED <<proposals, executing>>
             /\ CASE fault = "mkdir" ->
                       /\ last' = Reply("submit_request", pid, Unhandled)
                       /\ UNCHANGED <<disk, generating>>
                  [] fault = "write" ->
                       /\ last' = Reply("submit_request", pid, error("Failed to save Excel file", 500))
                       /\ \E partial \in BOOLEAN :
                            disk' = IF partial THEN disk \cup {temp_excel(pid)} ELSE disk
                       /\ UNCHANGED generating
                  [] OTHER ->
                       /\ disk' = disk \cup {temp_excel(pid)}
                       /\ generating' = generating (+) SetToBag({proposal_context(pid, req)})
                       /\ UNCHANGED last

\* What the Proposal Pipeline gives back: a dict, a JSON string, a CrewOutput
\* (an object with .raw), or something else (None).
Returned(shape, val, text) == [raised |-> FALSE, shape |-> shape, val |-> val, text |-> text]
Raised == [raised |-> TRUE, shape |-> "none", val |-> Null, text |-> NotJson]

normalize_proposal(result) ==
    IF result.shape \in {"wrapper", "str"}
    THEN IF result.text.parses THEN result.text.val
         ELSE Map([raw |-> result.text.chars])
    ELSE result.val

submit_request_success(pid) ==
    [code |-> 202,
     body |-> Map([success |-> TRUE, proposal_id |-> pid,
                   message |-> "Proposal generated successfully.",
                   next_step |-> <<"GET /get_payment_proposal/", pid>>])]

\* The rest of submit_request, once generate_payment_proposal_adapter is back.
generate_returns(ctx, result, fault) ==
    LET pid == ctx.proposal_id IN
    /\ BagIn(ctx, generating)
    /\ generating' = generating (-) SetToBag({ctx})
    /\ UNCHANGED <<issued, executing>>
    /\ IF result.raised
       THEN /\ last' = Reply("submit_request", pid, error("Crew error", 500))
            /\ UNCHANGED <<proposals, disk>>
       ELSE /\ proposals' = (pid :> normalize_proposal(result)) @@ proposals
            /\ CASE fault = "mkdir" ->
                      /\ last' = Reply("submit_request", pid, Unhandled)
                      /\ UNCHANGED disk
                 [] fault = "write" ->
                      /\ last' = Reply("submit_request", pid, submit_request_success(pid))
                      /\ \E partial \in BOOLEAN :
                           disk' = IF partial THEN disk \cup {proposal_json(pid)} ELSE disk
                 [] OTHER ->
                      /\ last' = Reply("submit_request", pid, submit_request_success(pid))
                      /\ disk' = disk \cup {proposal_json(pid)}

(* -------------------------------------------------- get_payment_proposal *)
\* Faulty variant: the stored value wrapped in a success envelope.
get_payment_proposal_response_wrapped(proposal_id) ==
    IF proposal_id \in DOMAIN proposals
    THEN [code |-> 200, body |-> Map([success |-> TRUE, proposal |-> proposals[proposal_id]])]
    ELSE error("Proposal not found", 404)

get_payment_proposal_response(proposal_id) ==
    IF proposal_id \in DOMAIN proposals
    THEN [code |-> 200, body |-> proposals[proposal_id]]
    ELSE error("Proposal not found", 404)

get_payment_proposal(proposal_id) ==
    /\ last' = Reply("get_payment_proposal", proposal_id, get_payment_proposal_response(proposal_id))
    /\ UNCHANGED <<proposals, disk, issued, generating, executing>>

(* ------------------------------------------- _validate_payment_approval *)
\* Faulty variant: one more decision let through.
valid_decisions_lenient == {"approve_all", "reject_all", "partial", "maybe"}
valid_decisions == {"approve_all", "reject_all", "partial"}

\* Faulty variant: approved_payments only required to be present.
validate_payment_approval_partial_any(data) ==
    IF Get(data, "approval_decision", "") # "partial" THEN Valid
    ELSE IF ~In("approved_payments", data)
        THEN ValueError("approved_payments is required for partial approval")
    ELSE Valid

validate_payment_approval_partial(data) ==
    IF Get(data, "approval_decision", "") # "partial" THEN Valid
    ELSE IF ~In("approved_payments", data)
        THEN ValueError("approved_payments is required for partial approval")
    ELSE IF ~IsList(data.f["approved_payments"])
        THEN ValueError("approved_payments must be an array")
    ELSE Valid

\* Faulty variant: private_key looked for before custody_wallet.
validate_payment_approval_reordered(data) ==
    IF InRaises(data) THEN Crash("TypeError")
    ELSE IF ~In("proposal_id", data) THEN ValueError("Missing required field: proposal_id")
    ELSE IF ~In("private_key", data) THEN ValueError("Missing required field: private_key")
    ELSE IF ~In("custody_wallet", data) THEN ValueError("Missing required field: custody_wallet")
    ELSE IF ~In("approval_decision", data) THEN ValueError("Missing required field: approval_decision")
    ELSE IF ~IsDict(data) THEN Crash("AttributeError")
    ELSE IF data.f["approval_decision"] \notin valid_decisions
        THEN ValueError("Invalid approval_decision")
    ELSE validate_payment_approval_partial(data)

validate_payment_approval(data) ==
    IF InRaises(data) THEN Crash("TypeError")
    ELSE IF ~In("proposal_id", data) THEN ValueError("Missing required field: proposal_id")
    ELSE IF ~In("custody_wallet", data) THEN ValueError("Missing required field: custody_wallet")
    ELSE IF ~In("private_key", data) THEN ValueError("Missing required field: private_key")
    ELSE IF ~In("approval_decision", data) THEN ValueError("Missing required field: approval_decision")
    ELSE IF ~IsDict(data) THEN Crash("AttributeError")
    ELSE IF data.f["approval_decision"] \notin valid_decisions
        THEN ValueError("Invalid approval_decision")
    ELSE validate_payment_approval_partial(data)

(* ------------------------------------------------ submit_payment_approval *)
\* The identifier a request names, for the record of its response.
NamedId(data) == IF IsDict(data) /\ In("proposal_id", data) THEN data.f["proposal_id"] ELSE NoId

\* Faulty variant: the existence check on proposal_id left out.
submit_payment_approval_reject_no_lookup(body) ==
    IF ~body.is_json THEN error("Request must be JSON", 400)
    ELSE IF ~body.syntax_ok THEN error("Invalid JSON syntax", 400)
    ELSE IF Falsy(body.data) THEN error("Missing JSON body", 400)
    ELSE IF validate_payment_approval(body.data).raises = "ValueError"
        THEN error(validate_payment_approval(body.data).msg, 400)
    ELSE IF validate_payment_approval(body.data).raises # "none" THEN Unhandled
    ELSE [code |-> 0, body |-> Null]

\* body: [is_json, syntax_ok, data]
submit_payment_approval_reject(body) ==
    IF ~body.is_json THEN error("Request must be JSON", 400)
    ELSE IF ~body.syntax_ok THEN error("Invalid JSON syntax", 400)
    ELSE IF Falsy(body.data) THEN error("Missing JSON body", 400)
    ELSE IF validate_payment_approval(body.data).raises = "ValueError"
        THEN error(validate_payment_approval(body.data).msg, 400)
    ELSE IF validate_payment_approval(body.data).raises # "none" THEN Unhandled
    ELSE IF body.data.f["proposal_id"] \notin DOMAIN proposals
        THEN error("Proposal not found", 404)
    ELSE [code |-> 0, body |-> Null]

\* Faulty variant: the caller's approved_payments ignored.
execution_context_without_list(data) ==
    [proposal_id |-> data.f["proposal_id"],
     custody_wallet |-> data.f["custody_wallet"],
     private_key |-> data.f["private_key"],
     approval_decision |-> data.f["approval_decision"],
     approved_payments |-> List(<<>>),
     comments |-> Get(data, "comments", "")]

\* Faulty variant: approved_payments filtered down to the identifiers of the
\* stored Proposal's payments.
execution_context_filtered(data) ==
    LET doc == proposals[data.f["proposal_id"]]
        approved == Get(data, "approved_payments", List(<<>>))
        known(x) == \E i \in 1..Len(doc.f["payments"]) : doc.f["payments"][i].payment_id = x
    IN  [proposal_id |-> data.f["proposal_id"],
         custody_wallet |-> data.f["custody_wallet"],
         private_key |-> data.f["private_key"],
         approval_decision |-> data.f["approval_decision"],
         approved_payments |->
            IF IsList(approved) /\ IsDict(doc) /\ In("payments", doc)
            THEN List(SelectSeq(approved.items, known)) ELSE approved,
         comments |-> Get(data, "comments", "")]

\* The context handed to the Execution Pipeline. proposal_data is the stored
\* object itself (a reference), so it is read through proposals.
execution_context(data) ==
    [proposal_id |-> data.f["proposal_id"],
     custody_wallet |-> data.f["custody_wallet"],
     private_key |-> data.f["private_key"],
     approval_decision |-> data.f["approval_decision"],
     approved_payments |-> Get(data, "approved_payments", List(<<>>)),
     comments |-> Get(data, "comments", "")]
proposal_data(ctx) == proposals[ctx.proposal_id]
\* The locals of a handler that is inside execute_payment_approval_adapter.
approval_frame(data) == [data |-> data, context |-> execution_context(data)]

submit_payment_approval(body, cap) ==
    LET r == submit_payment_approval_reject(body) IN
    IF r.code # 0
    THEN /\ last' = Reply("submit_payment_approval", NamedId(body.data), r)
         /\ UNCHANGED <<proposals, disk, issued, generating, executing>>
    ELSE /\ InFlight < cap
         /\ executing' = executing (+) SetToBag({approval_frame(body.data)})
         /\ UNCHANGED <<proposals, disk, issued, generating, last>>

\* Faulty variant: the fallback of the proposal normalisation used here too.
normalize_execution_raw(result) ==
    IF result.shape \in {"wrapper", "str"}
    THEN IF result.text.parses THEN result.text.val
         ELSE Map([raw |-> result.text.chars])
    ELSE result.val

normalize_execution(result) ==
    IF result.shape \in {"wrapper", "str"}
    THEN IF result.text.parses THEN result.text.val
         ELSE Map([execution_status |-> "FAILURE", message |-> result.text.chars])
    ELSE result.val

submit_payment_approval_success(pid, execution_result) ==
    [code |-> 200,
     body |-> Map([success |-> TRUE,
                   execution_status |-> Get(execution_result, "execution_status", "FAILURE"),
                   message |-> Get(execution_result, "message", "Payment execution completed"),
                   next_step |-> <<"GET /payment_execution_result/", pid>>])]

\* Faulty variant: a pipeline failure recorded on the proposal.
store_after_execution_error_marked(pid) ==
    IF IsDict(proposals[pid])
    THEN [proposals EXCEPT ![pid] = SetItem(@, "execution_result",
                                            Map([execution_status |-> "FAILURE"]))]
    ELSE proposals
\* The store after the except branch: the handler returns without touching it.
store_after_execution_error(pid) == proposals

\* Faulty variant: the caller's key kept on the stored proposal.
execute_effect_keeps_key(frame, result, fault) ==
    LET pid == frame.context.proposal_id
        execution_result == normalize_execution(result)
    IN
    IF result.raised
    THEN /\ last' = Reply("submit_payment_approval", pid, error("Payment execution failed", 500))
         /\ proposals' = store_after_execution_error(pid)
         /\ UNCHANGED disk
    ELSE IF ~IsDict(execution_result) \/ ~IsDict(proposals[pid])
    THEN /\ last' = Reply("submit_payment_approval", pid, Unhandled)
         /\ UNCHANGED <<proposals, disk>>
    ELSE /\ proposals' = [proposals EXCEPT ![pid] =
                             SetItem(SetItem(@, "execution_result", execution_result),
                                     "private_key", frame.context.private_key)]
         /\ last' = Reply("submit_payment_approval", pid,
                          submit_payment_approval_success(pid, execution_result))
         /\ disk' = disk \cup {execution_result_json(pid)}

\* What the handler does with the pipeline's answer: the response, the store
\* and the disk after it.
execute_effect(frame, result, fault) ==
    LET pid == frame.context.proposal_id
        execution_result == normalize_execution(result)
    IN
    IF result.raised
    THEN /\ last' = Reply("submit_payment_approval", pid, error("Payment execution failed", 500))
         /\ proposals' = store_after_execution_error(pid)
         /\ UNCHANGED disk
    ELSE IF ~IsDict(execution_result) \/ ~IsDict(proposals[pid])
    THEN \* .get on a non-dict, or item assignment on a stored non-dict
         /\ last' = Reply("submit_payment_approval", pid, Unhandled)
         /\ UNCHANGED <<proposals, disk>>
    ELSE /\ proposals' = [proposals EXCEPT ![pid] = SetItem(@, "execution_result", execution_result)]
         /\ CASE fault = "mkdir" ->
                   /\ last' = Reply("submit_payment_approval", pid, Unhandled)
                   /\ UNCHANGED disk
              [] fault = "write" ->
                   /\ last' = Reply("submit_payment_approval", pid,
                                    submit_payment_approval_success(pid, execution_result))
                   /\ \E partial \in BOOLEAN :
                        disk' = IF partial THEN disk \cup {execution_result_json(pid)} ELSE disk
              [] OTHER ->
                   /\ last' = Reply("submit_payment_approval", pid,
                                    submit_payment_approval_success(pid, execution_result))
                   /\ disk' = disk \cup {execution_result_json(pid)}

\* The rest of submit_payment_approval, once execute_payment_approval_adapter is back.
execute_returns(frame, result, fault) ==
    /\ BagIn(frame, executing)
    /\ executing' = executing (-) SetToBag({frame})
    /\ UNCHANGED <<issued, generating>>
    /\ execute_effect(frame, result, fault)

(* ------------------------------------------ get_payment_execution_result *)
\* _cleanup_proposal_artifacts: removes the three candidates and every file
\* whose name contains the identifier (identifiers are uuid4 strings, none a
\* part of another, so those are the files of this identifier); a remove
\* that fails is swallowed and leaves its file (kept).
\* Faulty variant: the temporary spreadsheet is left behind.
cleanup_proposal_artifacts_keeps_excel(proposal_id, kept) ==
    (disk \ {f \in disk : f.id = proposal_id /\ f.kind # "temp_excel"}) \cup (kept \cap disk)
\* Faulty variant: the whole output directory is emptied.
cleanup_proposal_artifacts_all(proposal_id, kept) == kept \cap disk
cleanup_proposal_artifacts(proposal_id, kept) ==
    (disk \ {f \in disk : f.id = proposal_id}) \cup (kept \cap disk)

get_payment_execution_result_response(proposal_id) ==
    IF proposal_id \notin DOMAIN proposals THEN error("Proposal not found", 404)
    ELSE IF InRaises(proposals[proposal_id]) THEN error("Internal error", 500)
    ELSE IF ~In("execution_result", proposals[proposal_id])
        THEN error("No execution result found for this proposal", 404)
    ELSE IF ~IsDict(proposals[proposal_id]) THEN error("Internal error", 500)
    ELSE [code |-> 200, body |-> proposals[proposal_id].f["execution_result"]]

\* Faulty variant: the cleanup drops the in-memory record as well.
get_payment_execution_result_evicts(proposal_id, kept) ==
    LET r == get_payment_execution_result_response(proposal_id) IN
    /\ last' = Reply("get_payment_execution_result", proposal_id, r)
    /\ disk' = IF r.code = 200 THEN cleanup_proposal_artifacts(proposal_id, kept) ELSE disk
    /\ proposals' = IF r.code = 200
                    THEN [p \in DOMAIN proposals \ {proposal_id} |-> proposals[p]]
                    ELSE proposals
    /\ UNCHANGED <<issued, generating, executing>>

get_payment_execution_result(proposal_id, kept) ==
    LET r == get_payment_execution_result_response(proposal_id) IN
    /\ last' = Reply("get_payment_execution_result", proposal_id, r)
    /\ disk' = IF r.code = 200 THEN cleanup_proposal_artifacts(proposal_id, kept) ELSE disk
    /\ UNCHANGED <<proposals, issued, generating, executing>>

(* ------------------------------------- TreasuryUSDTPaymentTool._execute_payment *)
\* amount_usdt is a float: a number, kept in hundredths of a USDT, or NaN,
\* for which every comparison is false.
Amount(cents) == [nan |-> FALSE, cents |-> cents]
NaN == [nan |-> TRUE, cents |-> 0]
Le(a, cents) == ~a.nan /\ a.cents <= cents
Lt(a, cents) == ~a.nan /\ a.cents < cents
MinAmount == 10     \* 0.1 USDT
\* Web3.to_checksum_address raises on text that is not a 20-byte hex address.
Malformed == "not-an-address"
to_checksum_address_raises(address) == address = Malformed

\* fail(reason): the FAILED payload, as json.dumps writes it
fail(call, reason) ==
    Dumps(Map([payment_id |-> call.payment_id, status |-> "FAILED", reason |-> reason,
               from |-> call.wallet_address, to |-> call.recipient_address,
               amount |-> call.amount_usdt, timestamp |-> "now"]))

\* call: the arguments; w3: whether the tool is connected to a node;
\* draw: what the random module returns during the call.
execute_payment(call, w3, draw) ==
    IF call.recipient_address = "" THEN fail(call, "MISSING_RECIPIENT_WALLET")
    ELSE IF call.wallet_address = "" THEN fail(call, "MISSING_SENDER_WALLET")
    ELSE IF Le(call.amount_usdt, 0) THEN fail(call, "INVALID_AMOUNT")
    ELSE IF call.private_key = "" THEN fail(call, "MISSING_PRIVATE_KEY")
    ELSE IF w3 /\ (\/ to_checksum_address_raises(call.wallet_address)
                   \/ to_checksum_address_raises(call.recipient_address))
        THEN fail(call, "INVALID_ADDRESS_FORMAT")
    ELSE IF Lt(call.amount_usdt, MinAmount) THEN fail(call, "AMOUNT_TOO_LOW")
    ELSE IF draw.success
        THEN Dumps(Map([payment_id |-> call.payment_id, status |-> "SUCCESS",
                        transaction_id |-> draw.tx_id,
                        from |-> call.wallet_address, to |-> call.recipient_address,
                        amount |-> call.amount_usdt, processing_time_seconds |-> "1-3",
                        estimated_completion |-> "soon",
                        note |-> "SIMULATION: Transaction would be successful"]))
    ELSE Dumps(Map([payment_id |-> call.payment_id, status |-> "FAILED",
                    reason |-> draw.failure,
                    from |-> call.wallet_address, to |-> call.recipient_address,
                    amount |-> call.amount_usdt, processing_time_seconds |-> "1-3",
                    note |-> "SIMULATION: Transaction would fail"]))

NoCall == [wallet_address |-> "", recipient_address |-> "", amount_usdt |-> Amount(0),
           private_key |-> "", payment_id |-> ""]
NoPayment == [called |-> FALSE, w3 |-> FALSE, call |-> NoCall, answer |-> NotJson]

\* _run(action = "execute_payment", ...)
run(draw) ==
    /\ ~payment.called
    /\ payment' = [payment EXCEPT !.called = TRUE,
                                  !.answer = execute_payment(payment.call, payment.w3, draw)]
    /\ UNCHANGED <<proposals, disk, issued, generating, executing, last>>

(* ---------------------------------------------------------- environment *)
\* What callers send and what the two pipelines and the file system do: the
\* handlers above are checked against every choice drawn from these sets.
P1 == [payment_id |-> "pay-1", recipient_wallet |-> "0x456", amount |-> 100, reference |-> "TEST-001"]
P2 == [payment_id |-> "pay-2", recipient_wallet |-> "0x789", amount |-> 200, reference |-> "TEST-002"]
ProposalDoc(pid) == Map([proposal_id |-> pid, report |-> "report", payments |-> <<P1, P2>>])
PaymentIds(doc) == {doc.f["payments"][i].payment_id : i \in 1..Len(doc.f["payments"])}

LimitsDocs == {Map(Pick([single |-> 5000, daily |-> 10000], K)) : K \in SUBSET {"single", "daily"}}
               \cup {Scalar("5000")}
RiskDocs == {Map(Pick([min_balance_usd |-> 1000, transaction_limits |-> tx], K)) :
                tx \in LimitsDocs, K \in SUBSET {"min_balance_usd", "transaction_limits"}}
            \cup {Scalar("high")}
ConfigDocs == {Map(Pick([user_id |-> "u1", risk_config |-> risk, custody_wallet |-> "0xLegacy"],
                         K \cup {"custody_wallet"})) :
                  risk \in RiskDocs, K \in SUBSET {"user_id", "risk_config"}}
              \cup {Null, List(<<>>), List(<<"user_id", "risk_config">>)}
ValidConfig == Map([user_id |-> "u1",
                    risk_config |-> Map([min_balance_usd |-> 1000,
                                         transaction_limits |-> Map([single |-> 5000, daily |-> 10000])])])

Upload(has_excel, has_json, json, excel) ==
    [has_excel |-> has_excel, has_json |-> has_json, json |-> json, excel |-> excel]
ValidUpload == Upload(TRUE, TRUE, Dumps(ValidConfig), "bytes")
Uploads == {ValidUpload,
            Upload(TRUE, TRUE, Dumps(Map([user_id |-> "u1"])), "bytes"),
            Upload(TRUE, TRUE, Dumps(ValidConfig), "empty")}
AllUploads == {Upload(TRUE, TRUE, Dumps(c), "bytes") : c \in ConfigDocs}
              \cup {Upload(TRUE, TRUE, Dumps(ValidConfig), x) : x \in {"empty", "unreadable"}}
              \cup {Upload(FALSE, TRUE, Dumps(ValidConfig), "bytes"),
                    Upload(TRUE, FALSE, Dumps(ValidConfig), "bytes"),
                    Upload(TRUE, TRUE, NotJson, "bytes")}

ApprovalFields(pid, decision, approved) ==
    [proposal_id |-> pid, custody_wallet |-> "0x123", private_key |-> "test-key",
     approval_decision |-> decision, approved_payments |-> approved, comments |-> "c"]
JsonBody(data) == [is_json |-> TRUE, syntax_ok |-> TRUE, data |-> data]
Required == {"proposal_id", "custody_wallet", "private_key", "approval_decision"}
ApprovedLists == {List(<<>>), List(<<"pay-9", "pay-1">>), Scalar("pay-1")}
Approvals == {JsonBody(Map(Pick(ApprovalFields(pid, "approve_all", Null), Required))) : pid \in Ids \cup {Ghost}}
             \cup {JsonBody(Map(Pick(ApprovalFields(pid, "maybe", Null), Required))) : pid \in Ids \cup {Ghost}}
             \cup {JsonBody(Map(Pick(ApprovalFields(pid, "partial", List(<<"pay-9", "pay-1">>)),
                                     Required \cup {"approved_payments"}))) : pid \in Ids}
AllApprovals == {JsonBody(Map(Pick(ApprovalFields(pid, d, a), K \cup {"comments"}))) :
                    pid \in Ids \cup {Ghost}, d \in valid_decisions \cup {"maybe"},
                    a \in ApprovedLists,
                    K \in {Required, Required \cup {"approved_payments"}}}
                \* bodies with one or two required fields missing
                \cup {JsonBody(Map(Pick(ApprovalFields(pid, d, List(<<>>)), K \cup {"comments"}))) :
                    pid \in Ids \cup {Ghost}, d \in {"partial", "maybe"},
                    K \in {(Required \cup {"approved_payments"}) \ {k} : k \in Required}
                         \cup {{"proposal_id", "approval_decision"},
                               {"proposal_id", "custody_wallet"},
                               {"approval_decision", "approved_payments"}}}
                \cup {JsonBody(Scalar("5")), JsonBody(Null), JsonBody(List(<<"proposal_id">>)),
                      [is_json |-> FALSE, syntax_ok |-> TRUE, data |-> Null],
                      [is_json |-> TRUE, syntax_ok |-> FALSE, data |-> Null]}

\* The shapes of output flask_server normalises, by name.
ProposalOutcome(shape, ctx) ==
    CASE shape = "raise" -> Raised
      [] shape = "dict" -> Returned("dict", ProposalDoc(ctx.proposal_id), NotJson)
      [] shape = "json" -> Returned("str", Null, Dumps(ProposalDoc(ctx.proposal_id)))
      [] shape = "wrapper" -> Returned("wrapper", Null, Dumps(ProposalDoc(ctx.proposal_id)))
      [] shape = "text" -> Returned("str", Null, NotJson)
      [] shape = "wrapped text" -> Returned("wrapper", Null, NotJson)
      [] shape = "json list" -> Returned("str", Null, Dumps(List(<<>>)))
      [] shape = "wrapped null" -> Returned("wrapper", Null, Dumps(Null))
      [] shape = "none" -> Returned("other", Null, NotJson)

ExecutionDoc(pid, status) ==
    Map([proposal_id |-> pid, execution_status |-> status, message |-> "executed",
         executed_payments |-> <<>>, failed_payments |-> <<>>])
ExecutionOutcome(shape, ctx) ==
    CASE shape = "raise" -> Raised
      [] shape = "dict" -> Returned("dict", ExecutionDoc(ctx.proposal_id, "SUCCESS"), NotJson)
      [] shape = "json" -> Returned("str", Null, Dumps(ExecutionDoc(ctx.proposal_id, "SUCCESS")))
      [] shape = "wrapper" -> Returned("wrapper", Null, Dumps(ExecutionDoc(ctx.proposal_id, "PARTIAL_SUCCESS")))
      [] shape = "text" -> Returned("str", Null, NotJson)
      [] shape = "wrapped text" -> Returned("wrapper", Null, NotJson)
      [] shape = "no status" -> Returned("dict", Map([proposal_id |-> ctx.proposal_id]), NotJson)
      [] shape = "json list" -> Returned("str", Null, Dumps(List(<<>>)))
      [] shape = "none" -> Returned("other", Null, NotJson)

\* An environment: the requests callers send, the shapes the pipelines answer
\* with, the file-system faults, how many requests may be inside a pipeline
\* call at once, and how many identifiers are issued.
Env(uploads, approvals, generated, executed, faults, cap, ids) ==
    [uploads |-> uploads, approvals |-> approvals, generated |-> generated,
     executed |-> executed, faults |-> faults, cap |-> cap, ids |-> ids]

\* Requests overlap (the server is threaded); the file system behaves.
Threaded == Env(Uploads, Approvals, {"raise", "dict", "wrapped null"},
                {"raise", "dict", "wrapper"}, {"none"}, MaxInFlight, MaxProposals)

(* -------------------------------------------------------- specification *)
Init ==
    /\ proposals = <<>>
    /\ disk = {}
    /\ issued = 0
    /\ generating = EmptyBag
    /\ executing = EmptyBag
    /\ last = Response("none", NoId, 0, Null)
    /\ payment = NoPayment

Step(env) ==
    \/ \E req \in env.uploads, fault \in env.faults :
          submit_request(req, fault, env.cap, env.ids) /\ UNCHANGED payment
    \/ \E ctx \in BagToSet(generating), fault \in env.faults, shape \in env.generated :
          generate_returns(ctx, ProposalOutcome(shape, ctx), fault) /\ UNCHANGED payment
    \/ \E pid \in 1..env.ids \cup {Ghost} : get_payment_proposal(pid) /\ UNCHANGED payment
    \/ \E body \in env.approvals : submit_payment_approval(body, env.cap) /\ UNCHANGED payment
    \/ \E frame \in BagToSet(executing), fault \in env.faults, shape \in env.executed :
          execute_returns(frame, ExecutionOutcome(shape, frame.context), fault) /\ UNCHANGED payment
    \/ \E pid \in 1..env.ids \cup {Ghost} :
          \E kept \in (IF env.faults = {"none"} THEN {{}} ELSE SUBSET (ArtifactsOf(pid) \cap disk)) :
             get_payment_execution_result(pid, kept) /\ UNCHANGED payment

Next == Step(Threaded)

\* One request at a time, every request of the input sets; the pipelines
\* answer with a dict or raise.
Sequential == Env(AllUploads, AllApprovals, {"raise", "dict"}, {"raise", "dict"}, {"none"}, 1,
                  MaxProposals)
NextRequests == Step(Sequential)

\* Proposal after proposal from well-formed requests, overlapping, with
\* every identifier approved by approve_all and an Execution Pipeline that
\* answers with a dict or with text that is not JSON.
SimpleApprovals(n) ==
    {JsonBody(Map(Pick(ApprovalFields(pid, "approve_all", Null), Required))) : pid \in 1..n}
Batch == Env({ValidUpload}, SimpleApprovals(MaxBatch), {"raise", "dict"},
             {"dict", "text", "wrapped text"}, {"none"},
             MaxInFlight, MaxBatch)
NextBatch == Step(Batch)

\* One request at a time, with a file system that may fail at any directory
\* creation, write or remove, an Execution Pipeline that raises or answers
\* with a dict, a wrapper or text, and callers that also send an empty
\* spreadsheet and approve an identifier that was never issued.
Faults == {"none", "mkdir", "write"}
ExecutedShapes == {"raise", "dict", "wrapper", "text"}
Faulty == Env({ValidUpload, Upload(TRUE, TRUE, Dumps(ValidConfig), "empty")},
              SimpleApprovals(MaxProposals)
                 \cup {JsonBody(Map(Pick(ApprovalFields(Ghost, "approve_all", Null), Required)))},
              {"raise", "dict"}, ExecutedShapes, Faults, 1, MaxProposals)
NextFaulty == Step(Faulty)

\* One request at a time, approvals under either of two keys, and an
\* Execution Pipeline that answers with every shape of output.
Keys == {"test-key", "other-key"}
WithKey(body, key) == JsonBody(SetItem(body.data, "private_key", key))
AllExecutedShapes == {"raise", "dict", "json", "wrapper", "text", "wrapped text",
                      "no status", "json list", "none"}
Shapes == Env({ValidUpload},
              {WithKey(b, k) : b \in SimpleApprovals(MaxProposals), k \in Keys},
              {"raise", "dict", "json"}, AllExecutedShapes, {"none"}, 1, MaxProposals)
NextShapes == Step(Shapes)

\* The payment tool on its own: every call of the argument sets below, with
\* and without a node, and every draw of the random module.
Addresses == {"", "0x456", Malformed}
Amounts == {Amount(-100), Amount(0), Amount(5), Amount(MinAmount), Amount(10000), NaN}
PaymentCalls == [wallet_address : Addresses, recipient_address : Addresses,
                 amount_usdt : Amounts, private_key : {"", "test-key"},
                 payment_id : {"", "pay-1"}]
SimulatedFailures == {"INSUFFICIENT_USDT_BALANCE", "INSUFFICIENT_ETH_FOR_GAS",
                      "INVALID_RECIPIENT_ADDRESS", "NETWORK_TIMEOUT"}
Draws == [success : BOOLEAN, tx_id : {"TXA1B2C3D4", "TX00000000"}, failure : SimulatedFailures]
InitPayment ==
    /\ proposals = <<>>
    /\ disk = {}
    /\ issued = 0
    /\ generating = EmptyBag
    /\ executing = EmptyBag
    /\ last = Response("none", NoId, 0, Null)
    /\ payment \in [called : {FALSE}, w3 : BOOLEAN, call : PaymentCalls, answer : {NotJson}]
NextPayment == \E draw \in Draws : run(draw)

Spec == Init /\ [][Next]_vars
SpecPayment == InitPayment /\ [][NextPayment]_vars
SpecShapes == Init /\ [][NextShapes]_vars
SpecRequests == Init /\ [][NextRequests]_vars
SpecBatch == Init /\ [][NextBatch]_vars
SpecFaulty == Init /\ [][NextFaulty]_vars

(* ------------------------------------------------------------ properties *)
Stored(p) == p \in DOMAIN proposals
HasResult(p) == Stored(p) /\ IsDict(proposals[p]) /\ In("execution_result", proposals[p])
ResultOf(p) == proposals[p].f["execution_result"]
\* the Execution Pipeline calls in progress for identifier p
ExecutingFor(p) ==
    BagCardinality([c \in {x \in BagToSet(executing) : x.context.proposal_id = p} |-> executing[c]])

\* C1: one-shot per proposal. Once an ExecutionResult is attached to a
\* proposal, no step starts another Execution Pipeline call for it and no
\* step replaces the attached result.
C1_OneShot ==
    [][\A p \in Ids : HasResult(p) =>
          /\ ExecutingFor(p)' <= ExecutingFor(p)
          /\ HasResult(p)'
          /\ ResultOf(p)' = ResultOf(p)]_vars

\* C2: for every identifier at most one Execution Pipeline call is in
\* progress at any time.
C2_OneExecutionAtATime == \A p \in Ids : ExecutingFor(p) <= 1

\* The validation contract of Submit Approval, as the specification words it.
WellFormedApproval(data) ==
    /\ IsDict(data)
    /\ Required \subseteq DOMAIN data.f
    /\ data.f["approval_decision"] \in valid_decisions
    /\ data.f["approval_decision"] = "partial" =>
          "approved_payments" \in DOMAIN data.f /\ IsList(data.f["approved_payments"])
NamesUnknownId(data) == IsDict(data) /\ In("proposal_id", data) /\ ~Stored(data.f["proposal_id"])

\* C3 (as claimed): a Submit Approval that names an identifier not in the
\* store is answered 404, whatever else the request holds.
C3_UnknownIdAlwaysNotFound ==
    (last.op = "submit_payment_approval" /\ last.id # NoId /\ ~Stored(last.id)) => last.code = 404

\* C3 (amended): in every state, a Submit Approval that names an identifier
\* not in the store is answered 404 "Proposal not found" when the request
\* passes validation, and 400 when it does not; a 404 is only ever given for
\* an identifier that is not stored.
C3_UnknownIdNotFoundAfterValidation ==
    /\ \A body \in AllApprovals :
          (body.is_json /\ body.syntax_ok /\ NamesUnknownId(body.data)) =>
             submit_payment_approval_reject(body) =
                IF WellFormedApproval(body.data) THEN error("Proposal not found", 404)
                ELSE error(validate_payment_approval(body.data).msg, 400)
    /\ (last.op = "submit_payment_approval" /\ last.code = 404) => ~Stored(last.id)
C3_Witness ==
    last.op = "submit_payment_approval" /\ last.id = Ghost /\ last.code = 404

\* C4: with reject_all, the context handed to the Execution Pipeline has an
\* empty approved_payments list.
C4_RejectAllPassesEmptyList ==
    \A frame \in BagToSet(executing) :
       frame.context.approval_decision = "reject_all" =>
          frame.context.approved_payments = List(<<>>)

\* C5 (as claimed): with approve_all, approved_payments in the context holds
\* the identifier of every payment of the stored Proposal.
ApprovedIds(ctx) == {ctx.approved_payments.items[i] : i \in 1..Len(ctx.approved_payments.items)}
result_response(p) == get_payment_execution_result_response(p)
\* this step completes a Submit Approval for p with a success response
ApprovalSucceeds(p) ==
    /\ BagCardinality(executing') < BagCardinality(executing)
    /\ last'.op = "submit_payment_approval" /\ last'.id = p /\ last'.code = 200

\* C6: for every identifier, Retrieve Execution Result answers 404 from the
\* start and through every step that is not a successful Submit Approval for
\* that identifier, and answers 200 with the stored result from the step
\* that completes one, and ever after.
C6_ResultVisibleOnlyAfterApproval ==
    /\ \A p \in Ids \cup {Ghost} : result_response(p).code = 404
    /\ [][\A p \in Ids \cup {Ghost} :
             /\ ApprovalSucceeds(p) =>
                   (result_response(p))' = [code |-> 200, body |-> ResultOf(p)']
             /\ ~ApprovalSucceeds(p) => (result_response(p).code)' = result_response(p).code
             /\ result_response(p).code = 200 => (result_response(p).code)' = 200]_vars

\* C7: a stored Proposal, as Retrieve Proposal returns it, never changes
\* apart from its execution_result field: every step leaves every other
\* field, the payment list among them, as it was, and the Proposal stays
\* retrievable.
WithoutResult(v) ==
    IF IsDict(v) THEN Map([k \in DOMAIN v.f \ {"execution_result"} |-> v.f[k]]) ELSE v
C7_ProposalImmutable ==
    [][\A p \in Ids :
          get_payment_proposal_response(p).code = 200 =>
             /\ (get_payment_proposal_response(p).code)' = 200
             /\ WithoutResult(get_payment_proposal_response(p).body)' =
                   WithoutResult(get_payment_proposal_response(p).body)]_vars
C7_Witness ==
    /\ last.op = "get_payment_proposal" /\ last.code = 200
    /\ IsDict(last.body) /\ In("execution_result", last.body)
    /\ In("payments", last.body) /\ last.body.f["payments"] = <<P1, P2>>

\* C8: the step in which the Execution Pipeline raises answers 500 with the
\* error envelope, changes neither the store nor the disk, leaves the
\* Proposal retrievable with no result attached by this request, and leaves
\* the same approval acceptable again.
C8_ExecutionFailureChangesNothing ==
    [][\A frame \in BagToSet(executing) :
          execute_returns(frame, Raised, "none") =>
             /\ last' = Reply("submit_payment_approval", frame.context.proposal_id,
                              error("Payment execution failed", 500))
             /\ proposals' = proposals
             /\ disk' = disk
             /\ (get_payment_proposal_response(frame.context.proposal_id).code)' = 200
             /\ (submit_payment_approval_reject(JsonBody(frame.data)).code)' = 0]_vars
C8_Witness ==
    /\ last = Reply("submit_payment_approval", last.id, error("Payment execution failed", 500))
    /\ Stored(last.id) /\ IsDict(proposals[last.id]) /\ ~HasResult(last.id)

\* C9: after a Submit Proposal Request whose Proposal Pipeline raised (500,
\* "Crew error"), nothing keyed by the identifier generated for it exists:
\* no Proposal in the store and no file on disk.
C9_NoPartialStateAfterCrewError ==
    last = Reply("submit_request", last.id, error("Crew error", 500)) =>
       /\ ~Stored(last.id)
       /\ {f \in disk : f.id = last.id} = {}

\* The configuration contract of Submit Proposal Request, as the
\* specification words it.
HasAll(v, keys) == IsDict(v) /\ keys \subseteq DOMAIN v.f
CompleteConfig(cfg) ==
    /\ HasAll(cfg, {"user_id", "risk_config"})
    /\ HasAll(cfg.f["risk_config"], {"min_balance_usd", "transaction_limits"})
    /\ HasAll(cfg.f["risk_config"].f["transaction_limits"], {"single", "daily"})

\* C10: a Submit Proposal Request whose configuration lacks a required field,
\* or whose spreadsheet is empty, is answered 400 and changes nothing: no
\* identifier issued, no file written, no pipeline call, no Proposal.
C10_InvalidRequestRejectedBeforeSideEffects ==
    [][\A req \in AllUploads :
          (/\ req.has_excel /\ req.has_json /\ req.json.parses
           /\ (~CompleteConfig(req.json.val) \/ req.excel = "empty")
           /\ submit_request(req, "none", 1, MaxProposals)) =>
             /\ last'.op = "submit_request" /\ last'.code = 400
             /\ last'.body.f["success"] = FALSE
             /\ UNCHANGED <<proposals, disk, issued, generating, executing>>]_vars

\* this step completes a Submit Proposal Request with a success response
SubmitSucceeds ==
    /\ BagCardinality(generating') < BagCardinality(generating)
    /\ last'.op = "submit_request" /\ last'.code = 202

\* C11: the identifier a successful Submit Proposal Request returns is not
\* in the store before that step (every identifier returned earlier is) and
\* belongs to no other request still inside the pipeline, and the step
\* leaves every entry already in the store as it was.
C11_FreshIdentifier ==
    [][SubmitSucceeds =>
          /\ last'.id \notin DOMAIN proposals
          /\ last'.id \in DOMAIN proposals'
          /\ \A ctx \in BagToSet(generating') : ctx.proposal_id # last'.id
          /\ \A p \in DOMAIN proposals : proposals'[p] = proposals[p]]_vars
C11_Witness ==
    /\ last.op = "submit_request" /\ last.code = 202
    /\ \E q \in DOMAIN proposals : q # last.id /\ proposals[q] # proposals[last.id]

\* a JSON object whose approval_decision is none of the three decisions
HasUnknownDecision(body) ==
    /\ body.is_json /\ body.syntax_ok /\ IsDict(body.data)
    /\ "approval_decision" \in DOMAIN body.data.f
    /\ body.data.f["approval_decision"] \notin {"approve_all", "reject_all", "partial"}

\* C12: a Submit Approval whose approval_decision is outside {approve_all,
\* reject_all, partial} is answered 400 with the error envelope, whether or
\* not the identifier it names is stored; the step starts no Execution
\* Pipeline call and changes neither the store nor anything else.
C12_UnknownDecisionRejected ==
    [][\A body \in Approvals :
          (HasUnknownDecision(body) /\ submit_payment_approval(body, MaxInFlight)) =>
             /\ last'.op = "submit_payment_approval" /\ last'.code = 400
             /\ last'.body.f["success"] = FALSE
             /\ UNCHANGED <<proposals, disk, issued, generating, executing>>]_vars
C12_Witness ==
    /\ last = Reply("submit_payment_approval", last.id, error("Invalid approval_decision", 400))
    /\ Stored(last.id)

\* a JSON object with approval_decision = partial whose approved_payments is
\* absent or is not a sequence
PartialWithoutList(data) ==
    /\ IsDict(data)
    /\ "approval_decision" \in DOMAIN data.f /\ data.f["approval_decision"] = "partial"
    /\ "approved_payments" \in DOMAIN data.f => ~IsList(data.f["approved_payments"])

\* C13: in every state, a Submit Approval with approval_decision = partial
\* whose approved_payments is absent or not a sequence is answered 400 with
\* the error envelope, and no request of that kind is ever inside the
\* Execution Pipeline.
C13_PartialNeedsList ==
    /\ \A body \in AllApprovals :
          (body.is_json /\ body.syntax_ok /\ PartialWithoutList(body.data)) =>
             /\ submit_payment_approval_reject(body).code = 400
             /\ submit_payment_approval_reject(body).body.f["success"] = FALSE
    /\ \A frame \in BagToSet(executing) : ~PartialWithoutList(frame.data)
C13_Witness ==
    /\ last = Reply("submit_payment_approval", last.id,
                    error("approved_payments must be an array", 400))
    /\ Stored(last.id)

\* C14: with approval_decision = partial, approved_payments in the context
\* handed to the Execution Pipeline is the list of the request, element for
\* element in the same order, identifiers of no payment of the Proposal
\* included.
C14_PartialPassesListThrough ==
    \A frame \in BagToSet(executing) :
       frame.data.f["approval_decision"] = "partial" =>
          /\ frame.context.approval_decision = "partial"
          /\ frame.context.approved_payments = frame.data.f["approved_payments"]
C14_Witness ==
    \E frame \in BagToSet(executing) :
       /\ frame.data.f["approval_decision"] = "partial"
       /\ frame.context.approved_payments = List(<<"pay-9", "pay-1">>)
       /\ PaymentIds(proposal_data(frame.context)) = {"pay-1", "pay-2"}

\* C15: every value in the store is a mapping.
C15_StoredProposalIsMapping == \A p \in DOMAIN proposals : IsDict(proposals[p])

\* the ExecutionResult for output that is not JSON
FailureDoc == Map([execution_status |-> "FAILURE", message |-> NotJson.chars])

C18_RetrievalLeavesStore ==
    [][/\ \A pid \in Ids \cup {Ghost} : \A kept \in SUBSET (ArtifactsOf(pid) \cap disk) :
             get_payment_execution_result(pid, kept) =>
                /\ proposals' = proposals
                /\ HasResult(pid) =>
                      last' = Response("get_payment_execution_result", pid, 200, ResultOf(pid))
                /\ result_response(pid)' = result_response(pid)
       /\ DOMAIN proposals \subseteq DOMAIN proposals']_vars
C18_Witness ==
    /\ last.op = "get_payment_execution_result" /\ last.code = 200
    /\ last.body = ResultOf(last.id)
    /\ execution_result_json(last.id) \in disk

\* C19: when the directory creation or the write of the snapshot fails, the
\* step that completes a Submit Proposal Request (the pipeline gave a dict)
\* or a Submit Approval (likewise) answers with the success response and
\* leaves the store as it does when the snapshot is written.
C19_SnapshotFailureChangesNothing ==
    [][/\ \A ctx \in BagToSet(generating), fault \in Faults \ {"none"} :
             generate_returns(ctx, ProposalOutcome("dict", ctx), fault) =>
                /\ last' = Reply("submit_request", ctx.proposal_id,
                                 submit_request_success(ctx.proposal_id))
                /\ proposals' = (ctx.proposal_id :> ProposalDoc(ctx.proposal_id)) @@ proposals
       /\ \A frame \in BagToSet(executing), fault \in Faults \ {"none"} :
             execute_returns(frame, ExecutionOutcome("dict", frame.context), fault) =>
                /\ last' = Reply("submit_payment_approval", frame.context.proposal_id,
                                 submit_payment_approval_success(
                                    frame.context.proposal_id,
                                    ExecutionDoc(frame.context.proposal_id, "SUCCESS")))
                /\ HasResult(frame.context.proposal_id)'
                /\ ResultOf(frame.context.proposal_id)' =
                      ExecutionDoc(frame.context.proposal_id, "SUCCESS")]_vars

\* The requests the specification lets through to a pipeline.
PassesValidation(req) ==
    /\ req.has_excel /\ req.has_json /\ req.json.parses
    /\ CompleteConfig(req.json.val) /\ req.excel = "bytes"
PassesApprovalChecks(body) ==
    /\ body.is_json /\ body.syntax_ok /\ WellFormedApproval(body.data)
    /\ Stored(body.data.f["proposal_id"])
Started(bag, n) == BagCardinality(bag') = BagCardinality(bag) + n

\* C20 (as claimed): a Submit Proposal Request starts one Proposal Pipeline
\* call when it passes validation and none otherwise; a Submit Approval
\* starts one Execution Pipeline call when it passes validation and the
\* existence check and none otherwise; neither starts a call of the other
\* pipeline; and no other step, a retrieval or a step in which a call
\* returns or raises, starts a call.
C20_PipelinesOnlyAtTransitions ==
    [][/\ \A req \in Faulty.uploads, fault \in Faults :
             submit_request(req, fault, 1, MaxProposals) =>
                /\ Started(generating, IF PassesValidation(req) THEN 1 ELSE 0)
                /\ executing' = executing
       /\ \A body \in Faulty.approvals :
             submit_payment_approval(body, 1) =>
                /\ Started(executing, IF PassesApprovalChecks(body) THEN 1 ELSE 0)
                /\ generating' = generating
       /\ BagCardinality(generating') > BagCardinality(generating) =>
             \E req \in Faulty.uploads, fault \in Faults :
                submit_request(req, fault, 1, MaxProposals)
       /\ BagCardinality(executing') > BagCardinality(executing) =>
             \E body \in Faulty.approvals : submit_payment_approval(body, 1)]_vars

\* C20 (amended): as above, except that a Submit Proposal Request that
\* passes validation starts its Proposal Pipeline call only when the
\* spreadsheet has been saved to its temporary file; when the directory
\* cannot be created or the file cannot be written it starts none.
C20_PipelinesOnlyAfterSaving ==
    [][/\ \A req \in Faulty.uploads, fault \in Faults :
             submit_request(req, fault, 1, MaxProposals) =>
                /\ Started(generating, IF PassesValidation(req) /\ fault = "none" THEN 1 ELSE 0)
                /\ executing' = executing
       /\ \A body \in Faulty.approvals :
             submit_payment_approval(body, 1) =>
                /\ Started(executing, IF PassesApprovalChecks(body) THEN 1 ELSE 0)
                /\ generating' = generating
       /\ BagCardinality(generating') > BagCardinality(generating) =>
             \E req \in Faulty.uploads, fault \in Faults :
                submit_request(req, fault, 1, MaxProposals)
       /\ BagCardinality(executing') > BagCardinality(executing) =>
             \E body \in Faulty.approvals : submit_payment_approval(body, 1)]_vars
C20_Witness ==
    /\ last = Reply("submit_request", last.id, error("Failed to save Excel file", 500))
    /\ last.id \in Ids
    /\ generating = EmptyBag

\* C21: every response that is not a success carries the error envelope,
\* success false with an error message; none is the framework's own page
\* for an exception that left a handler.
C21_FailuresCarryEnvelope ==
    last.code >= 400 =>
       /\ IsDict(last.body)
       /\ {"success", "error"} \subseteq DOMAIN last.body.f
       /\ last.body.f["success"] = FALSE

\* C22: every stored Proposal is a document whose proposal_id is the
\* identifier it is stored under, and so is every ExecutionResult attached
\* to one.
HasOwnId(doc, p) == IsDict(doc) /\ In("proposal_id", doc) /\ doc.f["proposal_id"] = p
C22_IdentifierConsistent ==
    \A p \in DOMAIN proposals :
       /\ HasOwnId(proposals[p], p)
       /\ HasResult(p) => HasOwnId(ResultOf(p), p)

\* The order of checks of Submit Approval, as the specification words it.
RequiredOrder == <<"proposal_id", "custody_wallet", "private_key", "approval_decision">>
MissingFields(data) == {i \in 1..Len(RequiredOrder) : RequiredOrder[i] \notin DOMAIN data.f}
FirstMissing(data) == RequiredOrder[CHOOSE i \in MissingFields(data) : \A j \in MissingFields(data) : i <= j]
MissingMessage(field) ==
    CASE field = "proposal_id" -> "Missing required field: proposal_id"
      [] field = "custody_wallet" -> "Missing required field: custody_wallet"
      [] field = "private_key" -> "Missing required field: private_key"
      [] field = "approval_decision" -> "Missing required field: approval_decision"
FirstFailingCheck(data) ==
    IF MissingFields(data) # {} THEN error(MissingMessage(FirstMissing(data)), 400)
    ELSE IF data.f["approval_decision"] \notin {"approve_all", "reject_all", "partial"}
        THEN error("Invalid approval_decision", 400)
    ELSE IF data.f["approval_decision"] = "partial" /\ "approved_payments" \notin DOMAIN data.f
        THEN error("approved_payments is required for partial approval", 400)
    ELSE IF data.f["approval_decision"] = "partial" /\ ~IsList(data.f["approved_payments"])
        THEN error("approved_payments must be an array", 400)
    ELSE IF ~Stored(data.f["proposal_id"]) THEN error("Proposal not found", 404)
    ELSE [code |-> 0, body |-> Null]

\* C23: in every state, the answer of Submit Approval to a JSON object is
\* that of the first failing check in the order: a missing required field
\* (proposal_id, custody_wallet, private_key, approval_decision), an unknown
\* approval_decision, a missing or non-sequence approved_payments for
\* partial, the existence of the identifier; and the request goes on to
\* the Execution Pipeline when none fails.
C23_FirstFailingCheckWins ==
    \A body \in AllApprovals :
       (body.is_json /\ body.syntax_ok /\ IsDict(body.data) /\ ~Falsy(body.data)) =>
          submit_payment_approval_reject(body) = FirstFailingCheck(body.data)
C23_Witness ==
    /\ last = Reply("submit_payment_approval", Ghost,
                    error("approved_payments is required for partial approval", 400))
    /\ \E p \in Ids : Stored(p)

\* C24: every Proposal Pipeline call in progress was given the location of
\* the temporary spreadsheet keyed by its identifier, and that file is on
\* disk; and after a request that failed to save the spreadsheet (500) no
\* pipeline call for its identifier is in progress and no Proposal is
\* stored under it.
C24_SavedBeforePipeline ==
    /\ \A ctx \in BagToSet(generating) :
          /\ ctx.excel_file_path = temp_excel(ctx.proposal_id)
          /\ ctx.excel_file_path \in disk
          /\ ~Stored(ctx.proposal_id)
    /\ last = Reply("submit_request", last.id, error("Failed to save Excel file", 500)) =>
          /\ ~Stored(last.id)
          /\ \A ctx \in BagToSet(generating) : ctx.proposal_id # last.id
C24_Witness ==
    \E ctx \in BagToSet(generating) :
       /\ ctx.excel_file_path = temp_excel(ctx.proposal_id)
       /\ disk = {temp_excel(ctx.proposal_id)}

\* C25: the step of a Retrieve Execution Result that answers 200 and whose
\* cleanup meets no I/O fault leaves on disk no file of that identifier:
\* neither the temporary spreadsheet, nor the proposal document, nor the
\* execution-result document.
C25_ArtifactsRemovedAfterRetrieval ==
    [][\A pid \in Ids :
          (get_payment_execution_result(pid, {}) /\ last'.code = 200) =>
             /\ ArtifactsOf(pid) \cap disk' = {}
             /\ {f \in disk' : f.id = pid} = {}]_vars
C25_Witness ==
    /\ last.op = "get_payment_execution_result" /\ last.code = 200
    /\ ArtifactsOf(last.id) \cap disk = {}

\* C27: the step of a Retrieve Execution Result for one identifier leaves
\* every file of every other identifier on disk.
C27_CleanupKeepsOtherArtifacts ==
    [][\A pid \in 1..MaxBatch :
          get_payment_execution_result(pid, {}) =>
             {f \in disk' : f.id # pid} = {f \in disk : f.id # pid}]_vars
C27_Witness ==
    /\ last.op = "get_payment_execution_result" /\ last.code = 200
    /\ ArtifactsOf(last.id) \cap disk = {}
    /\ \E q \in 1..MaxBatch : q # last.id /\ ArtifactsOf(q) \subseteq disk

\* C26: every step in which the Execution Pipeline's call returns without
\* raising attaches an ExecutionResult to the Proposal and answers 200
\* success, whatever the shape of the output.
C26_ReturnedExecutionIsRecorded ==
    [][\A frame \in BagToSet(executing), shape \in AllExecutedShapes \ {"raise"} :
          execute_returns(frame, ExecutionOutcome(shape, frame.context), "none") =>
             /\ HasResult(frame.context.proposal_id)'
             /\ last'.code = 200
             /\ In("success", last'.body)]_vars

\* C28: the response, the store and the disk after a Submit Approval are
\* those of the same request made under any other private_key, at the
\* validation step and at the step that handles the pipeline's output.
Rekeyed(frame, key) == approval_frame(SetItem(frame.data, "private_key", key))
C28_KeyReachesOnlyPipeline ==
    [][/\ \A body \in Shapes.approvals, key \in Keys :
             submit_payment_approval(body, 1) =>
                /\ submit_payment_approval_reject(WithKey(body, key)) = submit_payment_approval_reject(body)
                /\ proposals' = proposals /\ disk' = disk
                /\ \/ last' = last
                   \/ last' = Reply("submit_payment_approval", NamedId(body.data),
                                    submit_payment_approval_reject(WithKey(body, key)))
       /\ \A frame \in BagToSet(executing), shape \in AllExecutedShapes, key \in Keys :
             execute_returns(frame, ExecutionOutcome(shape, frame.context), "none") =>
                /\ ExecutionOutcome(shape, Rekeyed(frame, key).context) = ExecutionOutcome(shape, frame.context)
                /\ execute_effect(Rekeyed(frame, key), ExecutionOutcome(shape, frame.context), "none")]_vars
C28_Witness ==
    /\ last.op = "submit_payment_approval" /\ last.code = 200
    /\ HasResult(last.id)
    /\ ~In("private_key", proposals[last.id])
    /\ execution_result_json(last.id) \in disk
    /\ executing = EmptyBag

\* C29: after a Submit Approval that answered 200, the attached
\* ExecutionResult, which Retrieve Execution Result returns, carries the
\* execution_status the response reported.
C29_ReportedStatusIsStoredStatus ==
    (last.op = "submit_payment_approval" /\ last.code = 200) =>
       /\ HasResult(last.id)
       /\ get_payment_execution_result_response(last.id).code = 200
       /\ In("execution_status", get_payment_execution_result_response(last.id).body)
       /\ get_payment_execution_result_response(last.id).body.f["execution_status"]
             = last.body.f["execution_status"]

\* C30: every answer of execute_payment is one structured outcome; SUCCESS
\* is reported only when recipient, sender and private key are non-empty and
\* the amount is at least 0.1, and then carries a transaction_id; every other
\* outcome is FAILED with a reason, and the reason is the first that applies
\* of missing recipient, missing sender, amount <= 0, missing private key,
\* amount below 0.1.
AtLeast(a, cents) == ~a.nan /\ a.cents >= cents
ReasonByPrecedence(call) ==
    IF call.recipient_address = "" THEN "MISSING_RECIPIENT_WALLET"
    ELSE IF call.wallet_address = "" THEN "MISSING_SENDER_WALLET"
    ELSE IF ~call.amount_usdt.nan /\ call.amount_usdt.cents <= 0 THEN "INVALID_AMOUNT"
    ELSE IF call.private_key = "" THEN "MISSING_PRIVATE_KEY"
    ELSE IF ~AtLeast(call.amount_usdt, MinAmount) THEN "AMOUNT_TOO_LOW"
    ELSE "none"
C30_PaymentOutcome ==
    payment.called =>
       /\ payment.answer.parses
       /\ IsDict(payment.answer.val)
       /\ In("status", payment.answer.val)
       /\ LET out == payment.answer.val.f
              call == payment.call
          IN  IF out.status = "SUCCESS"
              THEN /\ call.recipient_address # "" /\ call.wallet_address # ""
                   /\ call.private_key # ""
                   /\ AtLeast(call.amount_usdt, MinAmount)
                   /\ "transaction_id" \in DOMAIN out
              ELSE /\ out.status = "FAILED"
                   /\ "reason" \in DOMAIN out
                   /\ out.reason = ReasonByPrecedence(call)

====
